---- MODULE Spec2Model ----
(***************************************************************************)
(* Model of mcp_analysis_retriever.js: the JSON-RPC dispatcher             *)
(* (handleJsonRpc), the upstream fetch primitive (getAnalysis), the        *)
(* fan-out / merge of a tools/call, and the POST transport handler.        *)
(*                                                                         *)
(* A text is a sequence of tokens; concatenating the tokens gives the      *)
(* JavaScript string.  A text the program takes apart (an upstream body,   *)
(* the text of an analysis, tipo) is written one UTF-16 code unit per      *)
(* token.  The token of a code unit is the character itself for U+0020 to  *)
(* U+007E and U+00A1 to U+00FF (the grave accent excepted), "\t", "\n",    *)
(* "\f" and "\r" for those four, and "U+XXXX" (four upper-case hex digits) *)
(* for every other code unit: "U+0008" is the backspace, "U+00A0" the      *)
(* no-break space, "U+D83D" a surrogate.  A text the program only copies   *)
(* or compares as a whole (its own literals, method, the tool name) may be *)
(* one token.  JavaScript values are tagged records; an object keeps its   *)
(* properties in the order JavaScript enumerates them.  A number is kept   *)
(* as the decimal text JavaScript prints for it: the JSON number is        *)
(* rounded to the nearest double, and the double is printed as the         *)
(* shortest decimal that rounds to it.  The conversion of a value to a     *)
(* string and every step that can throw give Return(v) or Throw(message).  *)
(***************************************************************************)
EXTENDS Integers, Sequences, FiniteSets, TLC

VARIABLES req, pc, tasks, res

vars == <<req, pc, tasks, res>>

(***************************************************************************)
(* Text                                                                    *)
(***************************************************************************)
NL == "\n"
SP == " "
TAB == "\t"
CR == "\r"
FF == "\f"
QUOTE == "\""
BSL == "\\"

DigitTok == <<"0", "1", "2", "3", "4", "5", "6", "7", "8", "9">>
Digits == {DigitTok[i] : i \in 1..10}
DigitVal(tok) == (CHOOSE i \in 1..10 : DigitTok[i] = tok) - 1

\* The hexadecimal digits, as JSON.stringify writes them and as JSON.parse
\* also reads them.
HexTok ==
  <<"0", "1", "2", "3", "4", "5", "6", "7", "8", "9",
    "a", "b", "c", "d", "e", "f">>
HexUpper ==
  <<"0", "1", "2", "3", "4", "5", "6", "7", "8", "9",
    "A", "B", "C", "D", "E", "F">>
\* The value of a hexadecimal digit, -1 for any other token.
HexVal(tok) ==
  IF \E i \in 1..16 : HexTok[i] = tok \/ HexUpper[i] = tok
  THEN (CHOOSE i \in 1..16 : HexTok[i] = tok \/ HexUpper[i] = tok) - 1
  ELSE 0 - 1

\* The tokens of the code units U+0020 to U+00FF, in order.
Latin1Tok ==
  <<" ", "!", "\"", "#", "$", "%", "&", "'", "(", ")", "*", "+", ",", "-",
    ".", "/", "0", "1", "2", "3", "4", "5", "6", "7", "8", "9", ":", ";",
    "<", "=", ">", "?", "@", "A", "B", "C", "D", "E", "F", "G", "H", "I",
    "J", "K", "L", "M", "N", "O", "P", "Q", "R", "S", "T", "U", "V", "W",
    "X", "Y", "Z", "[", "\\", "]", "^", "_", "U+0060", "a", "b", "c", "d",
    "e", "f", "g", "h", "i", "j", "k", "l", "m", "n", "o", "p", "q", "r",
    "s", "t", "u", "v", "w", "x", "y", "z", "{", "|", "}", "~", "U+007F",
    "U+0080", "U+0081", "U+0082", "U+0083", "U+0084", "U+0085", "U+0086",
    "U+0087", "U+0088", "U+0089", "U+008A", "U+008B", "U+008C", "U+008D",
    "U+008E", "U+008F", "U+0090", "U+0091", "U+0092", "U+0093", "U+0094",
    "U+0095", "U+0096", "U+0097", "U+0098", "U+0099", "U+009A", "U+009B",
    "U+009C", "U+009D", "U+009E", "U+009F", "U+00A0", "¡", "¢", "£", "¤",
    "¥", "¦", "§", "¨", "©", "ª", "«", "¬", "­", "®", "¯", "°", "±", "²",
    "³", "´", "µ", "¶", "·", "¸", "¹", "º", "»", "¼", "½", "¾", "¿", "À",
    "Á", "Â", "Ã", "Ä", "Å", "Æ", "Ç", "È", "É", "Ê", "Ë", "Ì", "Í", "Î",
    "Ï", "Ð", "Ñ", "Ò", "Ó", "Ô", "Õ", "Ö", "×", "Ø", "Ù", "Ú", "Û", "Ü",
    "Ý", "Þ", "ß", "à", "á", "â", "ã", "ä", "å", "æ", "ç", "è", "é", "ê",
    "ë", "ì", "í", "î", "ï", "ð", "ñ", "ò", "ó", "ô", "õ", "ö", "÷", "ø",
    "ù", "ú", "û", "ü", "ý", "þ", "ÿ">>

\* The token of UTF-16 code unit n.
CodeUnit(n) ==
  CASE n = 9 -> TAB
    [] n = 10 -> NL
    [] n = 12 -> FF
    [] n = 13 -> CR
    [] n >= 32 /\ n <= 255 -> Latin1Tok[n - 31]
    [] OTHER ->
         "U+" \o HexUpper[(n \div 4096) + 1] \o HexUpper[((n \div 256) % 16) + 1]
           \o HexUpper[((n \div 16) % 16) + 1] \o HexUpper[(n % 16) + 1]

\* The code units below U+0020, which JSON escapes and refuses raw.
Control == {CodeUnit(n) : n \in 0..31}

HighSurrogate == {CodeUnit(n) : n \in 55296..56319}
LowSurrogate == {CodeUnit(n) : n \in 56320..57343}

\* What String.prototype.trim removes: WhiteSpace and LineTerminator of
\* ECMAScript.
WhiteSpace ==
  {CodeUnit(n) : n \in {9, 10, 11, 12, 13, 32, 160, 5760, 8232, 8233, 8239,
                        8287, 12288, 65279} \cup 8192..8202}

RECURSIVE NatToText(_)
NatToText(n) ==
  IF n < 10 THEN <<DigitTok[n + 1]>>
  ELSE NatToText(n \div 10) \o <<DigitTok[(n % 10) + 1]>>

NumToText(n) == IF n < 0 THEN <<"-">> \o NatToText(0 - n) ELSE NatToText(n)

RECURSIVE TrimStart(_)
TrimStart(s) ==
  IF s # <<>> /\ Head(s) \in WhiteSpace THEN TrimStart(Tail(s)) ELSE s

RECURSIVE TrimEnd(_)
TrimEnd(s) ==
  IF s # <<>> /\ s[Len(s)] \in WhiteSpace
  THEN TrimEnd(SubSeq(s, 1, Len(s) - 1)) ELSE s

\* String.prototype.trim
Trim(s) == TrimEnd(TrimStart(s))

\* The JavaScript string a text stands for.
RECURSIVE Flatten(_)
Flatten(s) == IF s = <<>> THEN "" ELSE Head(s) \o Flatten(Tail(s))

(***************************************************************************)
(* Exceptions: a computation returns a value or throws an Error.           *)
(***************************************************************************)
Return(v) == [ok |-> TRUE, value |-> v]
Throw(message) == [ok |-> FALSE, message |-> message]

(***************************************************************************)
(* JavaScript values                                                       *)
(***************************************************************************)
Undef == [t |-> "undefined"]
Null == [t |-> "null"]
Bool(b) == [t |-> "boolean", b |-> b]
Str(s) == [t |-> "string", s |-> s]
Obj(ps) == [t |-> "object", ps |-> ps]
Arr(items) == [t |-> "array", items |-> items]

\* A number, by the text Number.prototype.toString gives for it.
Num(n) == [t |-> "number", txt |-> NumToText(n)]

\* The text of the number beyond the range of a double.
Infinity == <<"I", "n", "f", "i", "n", "i", "t", "y">>

IsNullish(v) == v.t \in {"undefined", "null"}

\* ToBoolean, as used by ||, if (...) and the conditional operator.
Truthy(v) ==
  CASE v.t = "undefined" -> FALSE
    [] v.t = "null" -> FALSE
    [] v.t = "boolean" -> v.b
    [] v.t = "number" -> v.txt # <<"0">>
    [] v.t = "string" -> v.s # <<>>
    [] OTHER -> TRUE

\* v === "word", for a string literal of the program.
Is(v, word) == v.t = "string" /\ Flatten(v.s) = word

\* a || b
OrElse(a, b) == IF Truthy(a) THEN a ELSE b

\* The value of the property whose name reads key, undefined without one.
RECURSIVE LastOf(_, _)
LastOf(ps, key) ==
  IF ps = <<>> THEN Undef
  ELSE IF Flatten(ps[Len(ps)][1]) = Flatten(key) THEN ps[Len(ps)][2]
  ELSE LastOf(SubSeq(ps, 1, Len(ps) - 1), key)

\* v.name for a value that is neither undefined nor null (the caller raises
\* the TypeError for those); a primitive or an array has none of the names
\* read here.
Prop(v, name) == IF v.t = "object" THEN LastOf(v.ps, <<name>>) ELSE Undef

\* String(v), the conversion a template literal and JSON.parse apply: it
\* returns the text or throws a TypeError.  A JSON value is never a
\* function, so an object with a property of its own named toString has
\* nothing to convert it: toString is not callable and valueOf, inherited or
\* not, gives no primitive.  An array is its elements joined by commas, null
\* and undefined giving nothing, each of the others converted in turn.
RECURSIVE ToStr(_)
RECURSIVE JoinItems(_, _, _)
ToStr(v) ==
  CASE v.t = "undefined" -> Return(<<"u", "n", "d", "e", "f", "i", "n", "e", "d">>)
    [] v.t = "null" -> Return(<<"n", "u", "l", "l">>)
    [] v.t = "boolean" -> Return(IF v.b THEN <<"t", "r", "u", "e">>
                                 ELSE <<"f", "a", "l", "s", "e">>)
    [] v.t = "number" -> Return(v.txt)
    [] v.t = "string" -> Return(v.s)
    [] v.t = "array" -> JoinItems(v.items, 1, <<>>)
    [] OTHER ->
         IF \E k \in 1..Len(v.ps) : Flatten(v.ps[k][1]) = "toString"
         THEN Throw(<<"Cannot convert object to primitive value">>)
         ELSE Return(<<"[", "o", "b", "j", "e", "c", "t", SP,
                       "O", "b", "j", "e", "c", "t", "]">>)

\* Array.prototype.join from element i on, acc being the text so far.
JoinItems(items, i, acc) ==
  IF i > Len(items) THEN Return(acc)
  ELSE IF IsNullish(items[i])
    THEN JoinItems(items, i + 1, acc \o (IF i > 1 THEN <<",">> ELSE <<>>))
  ELSE IF ~ToStr(items[i]).ok THEN ToStr(items[i])
  ELSE JoinItems(items, i + 1,
                 acc \o (IF i > 1 THEN <<",">> ELSE <<>>)
                     \o ToStr(items[i]).value)

(***************************************************************************)
(* JSON.stringify(value, null, 2)                                          *)
(***************************************************************************)
\* \uXXXX for code unit n, in lower case.
UnicodeEscape(n) ==
  <<BSL, "u", HexTok[(n \div 4096) + 1], HexTok[((n \div 256) % 16) + 1],
    HexTok[((n \div 16) % 16) + 1], HexTok[(n % 16) + 1]>>

\* QuoteJSONString for one code unit that is not a surrogate.
EscapeTok(tok) ==
  CASE tok = QUOTE -> <<BSL, QUOTE>>
    [] tok = BSL -> <<BSL, BSL>>
    [] tok = CodeUnit(8) -> <<BSL, "b">>
    [] tok = FF -> <<BSL, "f">>
    [] tok = NL -> <<BSL, "n">>
    [] tok = CR -> <<BSL, "r">>
    [] tok = TAB -> <<BSL, "t">>
    [] tok \in Control ->
         UnicodeEscape(CHOOSE n \in 0..31 : CodeUnit(n) = tok)
    [] OTHER -> <<tok>>

\* QuoteJSONString from s[i] on: a surrogate that is not half of a pair is
\* escaped too.
RECURSIVE EscapeFrom(_, _)
EscapeFrom(s, i) ==
  IF i > Len(s) THEN <<>>
  ELSE (IF \/ s[i] \in HighSurrogate
              /\ ~(i < Len(s) /\ s[i + 1] \in LowSurrogate)
           \/ s[i] \in LowSurrogate
              /\ ~(i > 1 /\ s[i - 1] \in HighSurrogate)
        THEN UnicodeEscape(CHOOSE n \in 55296..57343 : CodeUnit(n) = s[i])
        ELSE EscapeTok(s[i]))
         \o EscapeFrom(s, i + 1)

Quoted(s) == <<QUOTE>> \o EscapeFrom(s, 1) \o <<QUOTE>>

Indent(depth) == [i \in 1..(2 * depth) |-> SP]

\* The properties JSON.stringify writes: those whose value is not undefined.
RECURSIVE Defined(_)
Defined(ps) ==
  IF ps = <<>> THEN <<>>
  ELSE IF Head(ps)[2].t = "undefined" THEN Defined(Tail(ps))
  ELSE <<Head(ps)>> \o Defined(Tail(ps))

RECURSIVE Ser(_, _)
RECURSIVE SerProps(_, _)
RECURSIVE SerItems(_, _, _)
Ser(v, depth) ==
  CASE v.t = "null" -> ToStr(Null).value
    [] v.t = "undefined" -> ToStr(Null).value
    [] v.t = "boolean" -> ToStr(v).value
    [] v.t = "number" ->
         IF v.txt \in {Infinity, <<"-">> \o Infinity}
         THEN ToStr(Null).value ELSE v.txt
    [] v.t = "string" -> Quoted(v.s)
    [] v.t = "array" ->
         IF v.items = <<>> THEN <<"[", "]">>
         ELSE <<"[", NL>> \o SerItems(v.items, 1, depth + 1)
                \o <<NL>> \o Indent(depth) \o <<"]">>
    [] v.t = "object" ->
         IF Defined(v.ps) = <<>> THEN <<"{", "}">>
         ELSE <<"{", NL>> \o SerProps(Defined(v.ps), depth + 1)
                \o <<NL>> \o Indent(depth) \o <<"}">>

SerProps(ps, depth) ==
  Indent(depth) \o Quoted(Head(ps)[1]) \o <<":", SP>> \o Ser(Head(ps)[2], depth)
    \o (IF Len(ps) = 1 THEN <<>> ELSE <<",", NL>> \o SerProps(Tail(ps), depth))

\* The elements of an array, one per line.
SerItems(items, i, depth) ==
  Indent(depth) \o Ser(items[i], depth)
    \o (IF i = Len(items) THEN <<>>
        ELSE <<",", NL>> \o SerItems(items, i + 1, depth))

\* JSON.stringify(v, null, 2): undefined for undefined, a string otherwise.
JSONstringify(v) == IF v.t = "undefined" THEN Undef ELSE Str(Ser(v, 0))

(***************************************************************************)
(* Numbers: a JSON number is rounded to the nearest double (ties to the    *)
(* even significand), and Number::toString prints the shortest decimal     *)
(* that rounds to that double.  A natural number is the text of its        *)
(* decimal digits without leading zeros, 0 being the empty text; a double  *)
(* is a pair <<m, q>>, the number m x 2^q with m < 2^53 and q >= -1074.    *)
(***************************************************************************)
RECURSIVE DropTrailingZeros(_)
DropTrailingZeros(D) ==
  IF D # <<>> /\ D[Len(D)] = "0"
  THEN DropTrailingZeros(SubSeq(D, 1, Len(D) - 1)) ELSE D

\* a < b, for digit sequences of one length.
RECURSIVE DigitsLess(_, _)
DigitsLess(a, b) ==
  IF a = <<>> THEN FALSE
  ELSE IF Head(a) # Head(b) THEN DigitVal(Head(a)) < DigitVal(Head(b))
  ELSE DigitsLess(Tail(a), Tail(b))

\* a < b, for natural numbers.
IndexLess(a, b) ==
  Len(a) < Len(b) \/ (Len(a) = Len(b) /\ DigitsLess(a, b))

\* 2x: the carry into a digit comes from the digit after it alone.
Twice(x) ==
  (IF x # <<>> /\ DigitVal(x[1]) >= 5 THEN <<"1">> ELSE <<>>)
    \o [i \in 1..Len(x) |->
          DigitTok[((2 * DigitVal(x[i])
                       + (IF i < Len(x) /\ DigitVal(x[i + 1]) >= 5
                          THEN 1 ELSE 0)) % 10) + 1]]

\* floor(x / 2): the remainder of a digit goes to the digit after it.
Half(x) ==
  SubSeq([i \in 1..Len(x) |->
            DigitTok[((DigitVal(x[i])
                         + (IF i > 1 /\ DigitVal(x[i - 1]) % 2 = 1
                            THEN 10 ELSE 0)) \div 2) + 1]],
         IF x # <<>> /\ x[1] = "1" THEN 2 ELSE 1, Len(x))

Odd(x) == x # <<>> /\ DigitVal(x[Len(x)]) % 2 = 1

\* x + 1
RECURSIVE Succ(_)
Succ(x) ==
  IF x = <<>> THEN <<"1">>
  ELSE IF x[Len(x)] = "9" THEN Succ(SubSeq(x, 1, Len(x) - 1)) \o <<"0">>
  ELSE SubSeq(x, 1, Len(x) - 1) \o <<DigitTok[DigitVal(x[Len(x)]) + 2]>>

\* x - 1, for x > 0
RECURSIVE Pred(_)
Pred(x) ==
  IF x = <<"1">> THEN <<>>
  ELSE IF x[Len(x)] = "0" THEN Pred(SubSeq(x, 1, Len(x) - 1)) \o <<"9">>
  ELSE SubSeq(x, 1, Len(x) - 1) \o <<DigitTok[DigitVal(x[Len(x)])]>>

\* floor(A x 2^t)
RECURSIVE Pow2(_, _)
Pow2(A, t) ==
  IF A = <<>> \/ t = 0 THEN A
  ELSE IF t = 1 THEN Twice(A)
  ELSE IF t = 0 - 1 THEN Half(A)
  ELSE Pow2(Pow2(A, t \div 2), t - (t \div 2))

\* 2^52: the significand of a normal double is from 2^52 to 2^53 - 1.
TwoTo52 ==
  <<"4", "5", "0", "3", "5", "9", "9", "6", "2", "7", "3", "7", "0", "4",
    "9", "6">>

\* The first Len(X) - j digits of X: floor(X / 10^j).
IntPart(X, j) == IF Len(X) > j THEN SubSeq(X, 1, Len(X) - j) ELSE <<>>

\* The double for I / 2 x 2^(q + 1), I having one bit more than the
\* significand and sticky telling that digits below I were lost: round to
\* nearest, ties to even.
Rounded(I, q, sticky) ==
  IF Odd(I) /\ (sticky \/ Odd(Half(I)))
  THEN (IF Succ(Half(I)) = Twice(TwoTo52) THEN <<TwoTo52, q + 2>>
        ELSE <<Succ(Half(I)), q + 1>>)
  ELSE <<Half(I), q + 1>>

\* The double nearest to X / 10^j x 2^q: X is halved or doubled until its
\* integer part has 54 bits, or q is that of the subnormal doubles.
RECURSIVE Scaled(_, _, _, _)
Scaled(X, j, q, sticky) ==
  IF ~IndexLess(IntPart(X, j), Twice(Twice(TwoTo52)))
    THEN Scaled(Half(X), j, q + 1, sticky \/ Odd(X))
  ELSE IF IndexLess(IntPart(X, j), Twice(TwoTo52)) /\ q > 0 - 1075
    THEN Scaled(Twice(X), j, q - 1, sticky)
  ELSE Rounded(IntPart(X, j), q,
               sticky \/ \E i \in 1..Len(X) : i > Len(X) - j /\ X[i] # "0")

\* The double nearest to X / 10^j, going through X x 2^t first; t < 0 leaves
\* the integer part at 2^53 or more, and the bits it drops are sticky.
Nearest(X, j, t) ==
  Scaled(Pow2(X, t), j, 0 - t, t < 0 /\ Pow2(Pow2(X, t), 0 - t) # X)

\* The double nearest to 0.D x 10^n, D starting with a digit other than 0:
\* the number is at least 10^(n-1), and log2(10) is a little more than 3.321.
ToDouble(D, n) ==
  Nearest(IF n >= Len(D) THEN D \o [i \in 1..(n - Len(D)) |-> "0"] ELSE D,
          IF n >= Len(D) THEN 0 ELSE Len(D) - n,
          IF 53 - (((n - 1) * 3321) \div 1000) > 1075 THEN 1075
          ELSE 53 - (((n - 1) * 3321) \div 1000))

\* A x 2^t in units of 10^-f, f being -t for t < 0 and 0 otherwise.
Expand(A, t) ==
  IF t >= 0 THEN Pow2(A, t) ELSE Pow2(A \o [i \in 1..(0 - t) |-> "0"], t)

\* P followed by z zeros rounds to the double whose neighbours are halfway
\* at Lo and Hi; the ends themselves round to it when its significand is
\* even (closed).
Within(P, z, Lo, Hi, closed) ==
  IF closed
  THEN /\ ~IndexLess(P \o [i \in 1..z |-> "0"], Lo)
       /\ ~IndexLess(Hi, P \o [i \in 1..z |-> "0"])
  ELSE /\ IndexLess(Lo, P \o [i \in 1..z |-> "0"])
       /\ IndexLess(P \o [i \in 1..z |-> "0"], Hi)

\* Number::toString step 5: the fewest digits k such that a decimal of k
\* digits rounds to the double V; of two such decimals the one nearer to V,
\* the even one if they are as near.  The result is the digits and the number
\* of zeros to put after them.
RECURSIVE Shortest(_, _, _, _, _)
Shortest(V, Lo, Hi, closed, k) ==
  IF k >= Len(V) THEN <<V, 0>>
  ELSE IF /\ Within(SubSeq(V, 1, k), Len(V) - k, Lo, Hi, closed)
          /\ Within(Succ(SubSeq(V, 1, k)), Len(V) - k, Lo, Hi, closed)
    THEN (IF IndexLess(Twice(V),
                       Succ(Twice(SubSeq(V, 1, k)))
                         \o [i \in 1..(Len(V) - k) |-> "0"])
            THEN <<SubSeq(V, 1, k), Len(V) - k>>
          ELSE IF Twice(V) = Succ(Twice(SubSeq(V, 1, k)))
                               \o [i \in 1..(Len(V) - k) |-> "0"]
                  /\ DigitVal(V[k]) % 2 = 0
            THEN <<SubSeq(V, 1, k), Len(V) - k>>
          ELSE <<Succ(SubSeq(V, 1, k)), Len(V) - k>>)
  ELSE IF Within(SubSeq(V, 1, k), Len(V) - k, Lo, Hi, closed)
    THEN <<SubSeq(V, 1, k), Len(V) - k>>
  ELSE IF Within(Succ(SubSeq(V, 1, k)), Len(V) - k, Lo, Hi, closed)
    THEN <<Succ(SubSeq(V, 1, k)), Len(V) - k>>
  ELSE Shortest(V, Lo, Hi, closed, k + 1)

\* The exponent part of the scientific notation, n being the position of
\* the point.
ExponentText(n) ==
  <<"e">> \o (IF n - 1 < 0 THEN <<"-">> ELSE <<"+">>)
    \o NatToText(IF n - 1 < 0 THEN 1 - n ELSE n - 1)

\* Number::toString step 6 onwards: D is not empty, starts and ends with a
\* digit other than 0, and the number is 0.D x 10^n.
DecimalText(D, n) ==
  IF Len(D) <= n /\ n <= 21 THEN D \o [i \in 1..(n - Len(D)) |-> "0"]
  ELSE IF 0 < n /\ n <= 21
    THEN SubSeq(D, 1, n) \o <<".">> \o SubSeq(D, n + 1, Len(D))
  ELSE IF 0 - 6 < n /\ n <= 0
    THEN <<"0", ".">> \o [i \in 1..(0 - n) |-> "0"] \o D
  ELSE IF Len(D) = 1 THEN D \o ExponentText(n)
  ELSE <<Head(D), ".">> \o Tail(D) \o ExponentText(n)

\* The shortest decimal for the double A / 4 x 2^q with significand m, in
\* units of 10^-f where f is 2 - q for q < 2.  The double rounds from the
\* decimals up to half way to its neighbours: A - 2 and A + 2 in quarters,
\* A - 1 where the double below is in the binade below.
ShortestFor(m, q, A) ==
  Shortest(Expand(A, q - 2),
           Expand(IF m = TwoTo52 /\ q > 0 - 1074 THEN Pred(A) ELSE Pred(Pred(A)),
                  q - 2),
           Expand(Succ(Succ(A)), q - 2), ~Odd(m), 1)

\* The text of the decimal c[1] followed by c[2] zeros, in units of 10^-f.
DigitsText(c, f) ==
  DecimalText(DropTrailingZeros(c[1]), Len(c[1]) + c[2] - f)

\* Number::toString of the double d with this sign: -0 prints as 0, and a
\* double beyond (2^53 - 1) x 2^971 is Infinity.
DoubleText(negative, d) ==
  IF d[1] = <<>> THEN <<"0">>
  ELSE (IF negative THEN <<"-">> ELSE <<>>)
         \o (IF d[2] > 971 THEN Infinity
             ELSE DigitsText(ShortestFor(d[1], d[2], Twice(Twice(d[1]))),
                             IF d[2] < 2 THEN 2 - d[2] ELSE 0))

\* The number 0.D x 10^n, D without zeros at either end, as JavaScript
\* prints the double it is rounded to.  A decimal of up to 15 digits between
\* 1e-307 and 1e308 is itself the shortest decimal of its double; a decimal
\* from 1e310 on is Infinity, one below 1e-330 is 0.
MagnitudeText(negative, D, n) ==
  IF D = <<>> \/ n < 0 - 330 THEN <<"0">>
  ELSE IF n > 310 THEN (IF negative THEN <<"-">> ELSE <<>>) \o Infinity
  ELSE IF Len(D) <= 15 /\ 0 - 306 <= n /\ n <= 308
    THEN (IF negative THEN <<"-">> ELSE <<>>) \o DecimalText(D, n)
  ELSE DoubleText(negative, ToDouble(D, n))

\* The text of the number with this sign, the digits D and the point after
\* the first n of them.
RECURSIVE NumberText(_, _, _)
NumberText(negative, D, n) ==
  IF D # <<>> /\ Head(D) = "0" THEN NumberText(negative, Tail(D), n - 1)
  ELSE MagnitudeText(negative, DropTrailingZeros(D), n)

(***************************************************************************)
(* JSON.parse(text)                                                        *)
(***************************************************************************)
SyntaxError == [ok |-> FALSE]
Parsed(v, next) == [ok |-> TRUE, v |-> v, next |-> next]

\* The whitespace of the JSON grammar is the space, the line feed, the tab
\* and the carriage return.
RECURSIVE SkipWs(_, _)
SkipWs(toks, i) ==
  IF i <= Len(toks) /\ toks[i] \in {SP, NL, TAB, CR} THEN SkipWs(toks, i + 1)
  ELSE i

RECURSIVE DigitsEnd(_, _)
DigitsEnd(toks, i) ==
  IF i <= Len(toks) /\ toks[i] \in Digits THEN DigitsEnd(toks, i + 1) ELSE i

\* The value of the digits toks[i..j-1], or a value above 99999: an
\* exponent beyond that changes nothing, the number is 0 or Infinity.
RECURSIVE DigitsValue(_, _, _, _)
DigitsValue(toks, i, j, acc) ==
  IF i >= j THEN acc
  ELSE DigitsValue(toks, i + 1, j,
                   IF acc > 99999 THEN acc
                   ELSE 10 * acc + DigitVal(toks[i]))

At(toks, i) == IF i <= Len(toks) THEN toks[i] ELSE ""

\* The end of the integer part that starts at token i: the token after it.
IntegerEnd(toks, i) ==
  IF At(toks, i) = "0" THEN i + 1 ELSE DigitsEnd(toks, i)

\* The end of the fraction that may start at token i, 0 for a point without
\* digits.
FractionEnd(toks, i) ==
  IF At(toks, i) # "." THEN i
  ELSE IF DigitsEnd(toks, i + 1) = i + 1 THEN 0
  ELSE DigitsEnd(toks, i + 1)

\* The first digit of the exponent that may start at token i, i without one.
ExponentDigits(toks, i) ==
  IF At(toks, i) \notin {"e", "E"} THEN i
  ELSE IF At(toks, i + 1) \in {"+", "-"} THEN i + 2
  ELSE i + 1

\* The exponent whose digits are toks[d..e-1], written from token x.
ExponentValue(toks, x, d, e) ==
  IF d = x THEN 0
  ELSE IF At(toks, x + 1) = "-" THEN 0 - DigitsValue(toks, d, e, 0)
  ELSE DigitsValue(toks, d, e, 0)

\* The number with integer part toks[s..p-1], fraction up to f (the point
\* at p when f > p), exponent digits toks[d..e-1] written from token f.
NumberOf(toks, negative, s, p, f, d, e) ==
  IF d > f /\ e = d THEN SyntaxError
  ELSE Parsed([t |-> "number",
               txt |-> NumberText(negative,
                         SubSeq(toks, s, p - 1) \o SubSeq(toks, p + 1, f - 1),
                         (p - s) + ExponentValue(toks, f, d, e))],
              e)

\* The integer part is toks[s..p-1] and the fraction ends before token f.
NumberFraction(toks, negative, s, p, f) ==
  IF f = 0 THEN SyntaxError
  ELSE NumberOf(toks, negative, s, p, f, ExponentDigits(toks, f),
                IF ExponentDigits(toks, f) = f THEN f
                ELSE DigitsEnd(toks, ExponentDigits(toks, f)))

\* The digits of a number start at token s.
NumberFrom(toks, negative, s) ==
  IF At(toks, s) \notin Digits THEN SyntaxError
  ELSE NumberFraction(toks, negative, s, IntegerEnd(toks, s),
                      FractionEnd(toks, IntegerEnd(toks, s)))

\* toks[i] is a digit or the minus sign.
ParseNumber(toks, i) ==
  IF toks[i] = "-" THEN NumberFrom(toks, TRUE, i + 1)
  ELSE NumberFrom(toks, FALSE, i)

\* The character that the escape \c stands for, c being one of
\* " \ / b f n r t.
UnescapeTok(c) ==
  CASE c = "b" -> CodeUnit(8)
    [] c = "f" -> FF
    [] c = "n" -> NL
    [] c = "r" -> CR
    [] c = "t" -> TAB
    [] OTHER -> c

\* Inside a string, at token k, acc being the characters read so far.
RECURSIVE StringFrom(_, _, _)
StringFrom(toks, k, acc) ==
  IF k > Len(toks) \/ toks[k] \in Control THEN SyntaxError
  ELSE IF toks[k] = QUOTE THEN Parsed(Str(acc), k + 1)
  ELSE IF toks[k] # BSL THEN StringFrom(toks, k + 1, Append(acc, toks[k]))
  ELSE IF At(toks, k + 1) \in {QUOTE, BSL, "/", "b", "f", "n", "r", "t"}
    THEN StringFrom(toks, k + 2, Append(acc, UnescapeTok(toks[k + 1])))
  ELSE IF At(toks, k + 1) = "u" /\ \A d \in 2..5 : HexVal(At(toks, k + d)) >= 0
    THEN StringFrom(toks, k + 6,
                    Append(acc, CodeUnit(4096 * HexVal(toks[k + 2])
                                           + 256 * HexVal(toks[k + 3])
                                           + 16 * HexVal(toks[k + 4])
                                           + HexVal(toks[k + 5]))))
  ELSE SyntaxError

\* toks[i] is the opening quote.
ParseString(toks, i) == StringFrom(toks, i + 1, <<>>)

\* The literal word starts at token i, or nothing valid does.
Keyword(toks, i, word, v) ==
  IF i + Len(word) - 1 <= Len(toks) /\ SubSeq(toks, i, i + Len(word) - 1) = word
  THEN Parsed(v, i + Len(word))
  ELSE SyntaxError

\* A property name that is an array index: the canonical text of an
\* integer from 0 to 2^32 - 2.
IsIndex(key) ==
  /\ key # <<>>
  /\ \A i \in 1..Len(key) : key[i] \in Digits
  /\ Len(key) = 1 \/ key[1] # "0"
  /\ ~IndexLess(<<"4", "2", "9", "4", "9", "6", "7", "2", "9", "4">>, key)

\* Where a new property named key goes among ps: an index before the first
\* property that is no index or a larger one, any other name at the end.
RECURSIVE PlaceOf(_, _, _)
PlaceOf(ps, key, i) ==
  IF i > Len(ps) \/ ~IsIndex(key) THEN Len(ps) + 1
  ELSE IF ~IsIndex(ps[i][1]) \/ IndexLess(key, ps[i][1]) THEN i
  ELSE PlaceOf(ps, key, i + 1)

\* CreateDataProperty: a name already there keeps its place and takes the
\* new value; the properties stay in the order JavaScript enumerates them.
Put(ps, key, v) ==
  IF \E i \in 1..Len(ps) : ps[i][1] = key
  THEN [i \in 1..Len(ps) |-> IF ps[i][1] = key THEN <<key, v>> ELSE ps[i]]
  ELSE SubSeq(ps, 1, PlaceOf(ps, key, 1) - 1) \o <<<<key, v>>>>
         \o SubSeq(ps, PlaceOf(ps, key, 1), Len(ps))

RECURSIVE ParseValueAt(_, _)
RECURSIVE MemberKey(_, _, _)
RECURSIVE MemberColon(_, _, _, _)
RECURSIVE MemberValue(_, _, _, _)
RECURSIVE MemberEnd(_, _, _)
RECURSIVE ItemValue(_, _, _)
RECURSIVE ItemEnd(_, _, _)

\* After the opening brace, at the first token j that is not whitespace.
ObjectAt(toks, j) ==
  IF At(toks, j) = "}" THEN Parsed(Obj(<<>>), j + 1)
  ELSE MemberKey(toks, j, <<>>)

\* After the opening bracket, at the first token j that is not whitespace.
ArrayAt(toks, j) ==
  IF At(toks, j) = "]" THEN Parsed(Arr(<<>>), j + 1)
  ELSE ItemValue(toks, ParseValueAt(toks, j), <<>>)

\* A value starts at token i, which is not whitespace.
ParseValueAt(toks, i) ==
  IF i > Len(toks) THEN SyntaxError
  ELSE CASE toks[i] = "n" -> Keyword(toks, i, ToStr(Null).value, Null)
         [] toks[i] = "t" -> Keyword(toks, i, ToStr(Bool(TRUE)).value, Bool(TRUE))
         [] toks[i] = "f" -> Keyword(toks, i, ToStr(Bool(FALSE)).value, Bool(FALSE))
         [] toks[i] \in Digits \cup {"-"} -> ParseNumber(toks, i)
         [] toks[i] = QUOTE -> ParseString(toks, i)
         [] toks[i] = "{" -> ObjectAt(toks, SkipWs(toks, i + 1))
         [] toks[i] = "[" -> ArrayAt(toks, SkipWs(toks, i + 1))
         [] OTHER -> SyntaxError

ParseValue(toks, i) == ParseValueAt(toks, SkipWs(toks, i))

\* A member is expected at token i: "key" : value, then a comma or the brace.
MemberKey(toks, i, acc) ==
  IF At(toks, i) # QUOTE THEN SyntaxError
  ELSE MemberColon(toks, ParseString(toks, i), 0, acc)

\* The key is parsed; c is 0, or the first token after it that is not
\* whitespace.
MemberColon(toks, key, c, acc) ==
  IF ~key.ok THEN SyntaxError
  ELSE IF c = 0 THEN MemberColon(toks, key, SkipWs(toks, key.next), acc)
  ELSE IF At(toks, c) # ":" THEN SyntaxError
  ELSE MemberValue(toks, key.v.s, ParseValue(toks, c + 1), acc)

\* The value of the member named key is parsed.
MemberValue(toks, key, val, acc) ==
  IF ~val.ok THEN SyntaxError
  ELSE MemberEnd(toks, SkipWs(toks, val.next), Put(acc, key, val.v))

MemberEnd(toks, e, ps) ==
  IF At(toks, e) = "," THEN MemberKey(toks, SkipWs(toks, e + 1), ps)
  ELSE IF At(toks, e) = "}" THEN Parsed(Obj(ps), e + 1)
  ELSE SyntaxError

\* An element of an array is parsed, items being those before it.
ItemValue(toks, val, items) ==
  IF ~val.ok THEN SyntaxError
  ELSE ItemEnd(toks, SkipWs(toks, val.next), Append(items, val.v))

ItemEnd(toks, e, items) ==
  IF At(toks, e) = "," THEN ItemValue(toks, ParseValue(toks, e + 1), items)
  ELSE IF At(toks, e) = "]" THEN Parsed(Arr(items), e + 1)
  ELSE SyntaxError

\* The whole text is one value, whitespace around it allowed.
WholeText(toks, r) ==
  IF r.ok /\ SkipWs(toks, r.next) > Len(toks)
  THEN [ok |-> TRUE, v |-> r.v]
  ELSE SyntaxError

\* JSON.parse of a text: the value, or a SyntaxError.
ParseText(toks) == WholeText(toks, ParseValue(toks, 1))

\* JSON.parse(x): the argument is converted to a string first; it throws
\* when that conversion does, and when the text is no JSON.
JSONparse(x) == IF ToStr(x).ok THEN ParseText(ToStr(x).value) ELSE SyntaxError

(***************************************************************************)
(* getAnalysis: one upstream fetch                                         *)
(***************************************************************************)
\* A reply of the upstream to one fetch: the fetch itself fails (no
\* connection: [kind |-> "failure"]), or a response arrives with a status
\* and a body that can be read completely or not.
Response(status, readable, body) ==
  [kind |-> "response", status |-> status, readable |-> readable, body |-> body]

\* Messages of errors raised by the platform, not by this program.
BodyReadMsg == <<"Premature close">>
TypeErrorMsg(of, name) ==
  <<"Cannot read properties of", SP>> \o of \o <<SP, "(reading", SP, "'">>
    \o <<name>> \o <<"')">>

\* r.json()
JsonOrThrow(p) ==
  IF p.ok THEN Return(p.v) ELSE Throw(<<"invalid json response body">>)

ReadJson(r) ==
  IF ~r.readable THEN Throw(BodyReadMsg) ELSE JsonOrThrow(ParseText(r.body))

\* r.text()
ReadText(r) == IF ~r.readable THEN Throw(BodyReadMsg) ELSE Return(Str(r.body))

NotValidJsonMsg ==
  <<"La respuesta de HostGator no es un JSON válido.", SP,
    "Causa probable: error en el script PHP.">>

Outcome(text) == [type |-> "text", text |-> text]

\* Lines 38-41, data being what await r.json() gave.
NotFoundOutcome(data) ==
  IF ~data.ok THEN data
  ELSE IF IsNullish(data.value)
    THEN Throw(TypeErrorMsg(ToStr(data.value).value, "mensaje"))
  ELSE Return(Outcome(OrElse(
         Prop(data.value, "mensaje"),
         Str(<<"No se encontró ningún análisis para los criterios especificados.">>))))

\* Line 45: r.text().catch(() => '')
TextOrEmpty(t) == IF t.ok THEN t.value ELSE Str(<<>>)

\* Variant of ErrorStatusBranch: the body of an error status is returned as
\* the text outcome.
ErrorStatusAsText(r) == Return(Outcome(TextOrEmpty(ReadText(r))))

\* Lines 44-47: an error status other than 404.
ErrorStatusBranch(r) ==
  Throw(<<"API de análisis error", SP>> \o NumToText(r.status) \o <<":", SP>>
          \o TextOrEmpty(ReadText(r)).s)

\* Variant of SuccessOutcome: a body that does not parse is passed on as text.
SuccessOutcomeLenient(data) ==
  IF ~data.ok THEN Return(Outcome(Str(data.message)))
  ELSE IF IsNullish(data.value) THEN Throw(NotValidJsonMsg)
  ELSE Return(Outcome(JSONstringify(Prop(data.value, "resultado"))))

\* Lines 52-60, data being what await r.json() gave: every failure inside
\* the try is replaced by the error of line 60.
SuccessOutcome(data) ==
  IF ~data.ok \/ IsNullish(data.value) THEN Throw(NotValidJsonMsg)
  ELSE Return(Outcome(JSONstringify(Prop(data.value, "resultado"))))

\* Lines 26-61, the body of the outer try: fetch fails, or the status is
\* 404 (lines 36-42), not r.ok (lines 44-47) or a success (lines 51-61).
getAnalysisTry(reply) ==
  IF reply.kind = "failure" THEN Throw(<<"request to upstream failed">>)
  ELSE IF reply.status = 404 THEN NotFoundOutcome(ReadJson(reply))
  ELSE IF reply.status < 200 \/ reply.status > 299
    THEN ErrorStatusBranch(reply)
  ELSE SuccessOutcome(ReadJson(reply))

\* Lines 62-64: the catch wraps every error raised inside the try.
CatchAll(r) ==
  IF r.ok THEN r
  ELSE Throw(<<"Error conectando con HostGator:", SP>> \o r.message)

\* getAnalysis, from the reply of the upstream on.
getAnalysis(reply) == CatchAll(getAnalysisTry(reply))

(***************************************************************************)
(* handleJsonRpc                                                           *)
(***************************************************************************)
METHOD_NOT_FOUND == -32601
SERVER_ERROR == -32000

LowerCase ==
  <<"a", "b", "c", "d", "e", "f", "g", "h", "i", "j", "k", "l", "m",
    "n", "o", "p", "q", "r", "s", "t", "u", "v", "w", "x", "y", "z">>
UpperCase ==
  <<"A", "B", "C", "D", "E", "F", "G", "H", "I", "J", "K", "L", "M",
    "N", "O", "P", "Q", "R", "S", "T", "U", "V", "W", "X", "Y", "Z">>

\* String.prototype.toUpperCase, on a text spelled letter by letter.
ToUpperCase(s) ==
  [i \in 1..Len(s) |->
     IF \E k \in 1..26 : LowerCase[k] = s[i]
     THEN UpperCase[CHOOSE k \in 1..26 : LowerCase[k] = s[i]]
     ELSE s[i]]

\* String.prototype.replace(pattern, by) with a string pattern: the first
\* occurrence only.
RECURSIVE Replace(_, _, _)
Replace(s, pattern, by) ==
  IF s = <<>> THEN <<>>
  ELSE IF Head(s) = pattern THEN <<by>> \o Tail(s)
  ELSE <<Head(s)>> \o Replace(Tail(s), pattern, by)

\* The analysis types, spelled letter by letter.
EVALUATE_PORTFOLIO ==
  Str(<<"e", "v", "a", "l", "u", "a", "t", "e", "_",
        "p", "o", "r", "t", "f", "o", "l", "i", "o">>)
TICKER_INFO == Str(<<"t", "i", "c", "k", "e", "r", "_", "i", "n", "f", "o">>)
REPLACEMENT ==
  Str(<<"r", "e", "p", "l", "a", "c", "e", "m", "e", "n", "t">>)

TOOL_NAME == Str(<<"getLatestClientAnalysis">>)

TOOL_DEF ==
  [name |-> TOOL_NAME,
   description |->
     "Obtiene el último análisis guardado para un cliente específico y un tipo de análisis. Devuelve el análisis completo y su fecha de creación.",
   inputSchema |->
     [type |-> "object",
      properties |->
        [id_cliente |->
           [type |-> "integer",
            description |-> "El ID numérico del cliente a consultar."],
         tipo |->
           [type |-> "string",
            description |-> "El tipo de análisis a recuperar.",
            enum |-> <<EVALUATE_PORTFOLIO, TICKER_INFO, REPLACEMENT>>]],
      required |-> <<"id_cliente", "tipo">>]]

ResultEnvelope(id, result) == [jsonrpc |-> "2.0", id |-> id, result |-> result]
ErrorEnvelope(id, code, message) ==
  [jsonrpc |-> "2.0", id |-> id, error |-> [code |-> code, message |-> message]]

InitializeResult ==
  [protocolVersion |-> "2024-11-05",
   serverInfo |-> [name |-> "mcp-analysis-retriever", version |-> "1.0.0"],
   capabilities |-> [tools |-> Obj(<<>>)]]

\* Line 91: const { jsonrpc, id, method, params } = body || {}
Field(body, name) == Prop(OrElse(body, Obj(<<>>)), name)

\* Lines 121 and 127: the arguments of the call.
Arguments(body) == Field(Field(body, "params"), "arguments")
IdCliente(body) == Field(Arguments(body), "id_cliente")
Tipo(body) == Field(Arguments(body), "tipo")

\* One call of getAnalysis: it awaits fetch ("pending"), then awaits the
\* body of the response ("reading"), then has returned ("fulfilled") or
\* thrown ("rejected").
Task(clientId, analysisType) ==
  [clientId |-> clientId, analysisType |-> analysisType,
   state |-> "pending", at |-> 0, reply |-> Undef, result |-> Undef]

\* getAnalysis has not finished.
Outstanding(t) == t.state \in {"pending", "reading"}

\* Lines 131-136: the fetches a tool call schedules.
ScheduledTasks(id_cliente, tipo) ==
  <<Task(id_cliente, EVALUATE_PORTFOLIO)>>
    \o (IF Is(tipo, "ticker_info") \/ Is(tipo, "replacement")
        THEN <<Task(id_cliente, tipo)>> ELSE <<>>)

PortfolioHeader == <<"--- ANÁLISIS DE PORTAFOLIO ---", NL>>
MarketHeader == <<"--- CONTEXTO DE MERCADO ---", NL>>
SpecificHeader(tipo) ==
  <<"--- ANÁLISIS DE", SP>> \o ToUpperCase(Replace(tipo.s, "_", SP))
    \o <<SP, "---", NL>>

\* Variant of PortfolioCatch: a result that is not JSON is passed on as it
\* is, without the header.
PortfolioCatchPlain(before, portfolioResult) ==
  IF ToStr(portfolioResult.text).ok
  THEN Return(before \o ToStr(portfolioResult.text).value \o <<NL, NL>>)
  ELSE ToStr(portfolioResult.text)

\* Line 155, the catch of the portfolio section, before being what the try
\* had appended to combinedText when it threw: the template literal is
\* outside every try, and its TypeError leaves handleJsonRpc.
PortfolioCatch(before, portfolioResult) ==
  IF ToStr(portfolioResult.text).ok
  THEN Return(before \o PortfolioHeader \o ToStr(portfolioResult.text).value
                \o <<NL, NL>>)
  ELSE ToStr(portfolioResult.text)

\* Lines 150-152: the market context, if market_summary is truthy; a
\* market_summary that does not convert throws into the catch, the portfolio
\* section being appended already.
MarketSection(before, market_summary, portfolioResult) ==
  IF ~Truthy(market_summary) THEN Return(before)
  ELSE IF ToStr(market_summary).ok
    THEN Return(before \o MarketHeader \o ToStr(market_summary).value
                  \o <<NL, NL>>)
  ELSE PortfolioCatch(before, portfolioResult)

\* Lines 148-155, p being what JSON.parse gave: a SyntaxError, reading a
\* property of null, and a full_analysis that does not convert all throw
\* inside the try, before anything is appended.
PortfolioText(p, portfolioResult) ==
  IF p.ok /\ ~IsNullish(p.v) /\ ToStr(Prop(p.v, "full_analysis")).ok
  THEN MarketSection(PortfolioHeader
                       \o ToStr(Prop(p.v, "full_analysis")).value \o <<NL, NL>>,
                     Prop(p.v, "market_summary"), portfolioResult)
  ELSE PortfolioCatch(<<>>, portfolioResult)

\* Lines 160-165, p being what JSON.parse gave: the template literal of line
\* 162 is inside the try, that of line 165 outside.
SpecificText(p, specificResult, tipo) ==
  IF p.ok /\ ~IsNullish(p.v) /\ ToStr(Prop(p.v, "full_analysis")).ok
    THEN Return(SpecificHeader(tipo) \o ToStr(Prop(p.v, "full_analysis")).value)
  ELSE IF ToStr(specificResult.text).ok
    THEN Return(SpecificHeader(tipo) \o ToStr(specificResult.text).value)
  ELSE ToStr(specificResult.text)

\* a, then b: the text of both, or the error of the first that throws.
Appended(a, b) ==
  IF ~a.ok THEN a
  ELSE IF ~b.ok THEN b
  ELSE Return(a.value \o b.value)

\* Lines 140-167: results holds the outcomes in the order of tasks; the
\* portfolio section (lines 147-156), then that of the specific type if
\* there is a second result (lines 158-167).
combinedText(results, tipo) ==
  Appended(PortfolioText(JSONparse(results[1].text), results[1]),
           IF Len(results) > 1
           THEN SpecificText(JSONparse(results[2].text), results[2], tipo)
           ELSE Return(<<>>))

\* Lines 169-172
finalResult(text) == Outcome(Trim(text))

\* What handleJsonRpc does until it suspends or ends: it returns a value,
\* awaits Promise.all(tasks), or throws.
Returns(value) == [kind |-> "return", value |-> value]
Awaits(ts) == [kind |-> "await", tasks |-> ts]
Raises(message) == [kind |-> "throw", message |-> message]

\* Lines 140-179, after the await: the envelope of a completed tool call, or
\* the error thrown while merging.
ToolCallResult(id, combined) ==
  IF combined.ok
  THEN Returns(ResultEnvelope(id, [content |-> <<finalResult(combined.value)>>]))
  ELSE Raises(combined.message)

\* Variant of ToolsCall: the tool name is not checked.
ToolsCallAnyName(id, body) ==
  IF ~ToStr(IdCliente(body)).ok THEN Raises(ToStr(IdCliente(body)).message)
  ELSE IF ~ToStr(Tipo(body)).ok THEN Raises(ToStr(Tipo(body)).message)
  ELSE Awaits(ScheduledTasks(IdCliente(body), Tipo(body)))

\* Lines 120-139: tools/call up to the await of Promise.all.  The log of line
\* 128 converts id_cliente and tipo before any fetch is started.
ToolsCall(id, body) ==
  IF ~Is(Field(Field(body, "params"), "name"), "getLatestClientAnalysis")
    THEN Returns(ErrorEnvelope(id, METHOD_NOT_FOUND, <<"Herramienta no encontrada">>))
  ELSE IF ~ToStr(IdCliente(body)).ok THEN Raises(ToStr(IdCliente(body)).message)
  ELSE IF ~ToStr(Tipo(body)).ok THEN Raises(ToStr(Tipo(body)).message)
  ELSE Awaits(ScheduledTasks(IdCliente(body), Tipo(body)))

\* Variant of Dispatch: initialize answers with the protocol version the
\* client asked for, when it names one.
DispatchInitializeEchoesParams(id, method, body) ==
  IF ~ToStr(method).ok THEN Raises(ToStr(method).message)
  ELSE IF id.t = "undefined" THEN Returns(Null)
  ELSE IF Is(method, "initialize")
    THEN Returns(ResultEnvelope(id,
           [InitializeResult EXCEPT !.protocolVersion =
              Flatten(ToStr(OrElse(Field(Field(body, "params"), "protocolVersion"),
                                   Str(<<"2024-11-05">>))).value)]))
  ELSE IF Is(method, "tools/list")
    THEN Returns(ResultEnvelope(id, [tools |-> <<TOOL_DEF>>]))
  ELSE IF Is(method, "tools/call") THEN ToolsCall(id, body)
  ELSE IF Is(method, "ping") THEN Returns(ResultEnvelope(id, Obj(<<>>)))
  ELSE IF Is(method, "notifications/list")
    THEN Returns(ResultEnvelope(id, [notifications |-> <<>>]))
  ELSE Returns(ErrorEnvelope(id, METHOD_NOT_FOUND,
                             <<"Método no soportado:", SP>> \o ToStr(method).value))

\* Variant of Dispatch: tools/call is handled before the id is looked at.
DispatchMethodFirst(id, method, body) ==
  IF ~ToStr(method).ok THEN Raises(ToStr(method).message)
  ELSE IF Is(method, "tools/call") THEN ToolsCall(id, body)
  ELSE IF id.t = "undefined" THEN Returns(Null)
  ELSE IF Is(method, "initialize")
    THEN Returns(ResultEnvelope(id, InitializeResult))
  ELSE IF Is(method, "tools/list")
    THEN Returns(ResultEnvelope(id, [tools |-> <<TOOL_DEF>>]))
  ELSE IF Is(method, "ping") THEN Returns(ResultEnvelope(id, Obj(<<>>)))
  ELSE IF Is(method, "notifications/list")
    THEN Returns(ResultEnvelope(id, [notifications |-> <<>>]))
  ELSE Returns(ErrorEnvelope(id, METHOD_NOT_FOUND,
                             <<"Método no soportado:", SP>> \o ToStr(method).value))

\* Lines 95-191: the dispatch on id and method.  The logs of lines 96 and 100
\* convert method to a string, the one for a notification and the other for
\* a request, before anything else is done with it.
Dispatch(id, method, body) ==
  IF id.t = "undefined"
    THEN (IF ToStr(method).ok THEN Returns(Null)
          ELSE Raises(ToStr(method).message))
  ELSE IF ~ToStr(method).ok THEN Raises(ToStr(method).message)
  ELSE IF Is(method, "initialize")
    THEN Returns(ResultEnvelope(id, InitializeResult))
  ELSE IF Is(method, "tools/list")
    THEN Returns(ResultEnvelope(id, [tools |-> <<TOOL_DEF>>]))
  ELSE IF Is(method, "tools/call") THEN ToolsCall(id, body)
  ELSE IF Is(method, "ping") THEN Returns(ResultEnvelope(id, Obj(<<>>)))
  ELSE IF Is(method, "notifications/list")
    THEN Returns(ResultEnvelope(id, [notifications |-> <<>>]))
  ELSE Returns(ErrorEnvelope(id, METHOD_NOT_FOUND,
                             <<"Método no soportado:", SP>> \o ToStr(method).value))

\* handleJsonRpc up to its first await: it returns a response envelope,
\* returns null (no response), suspends on Promise.all(tasks), or throws.
handleJsonRpc(body) == Dispatch(Field(body, "id"), Field(body, "method"), body)

(***************************************************************************)
(* app.post("/"): the transport                                            *)
(***************************************************************************)
\* Lines 217-224: a response envelope is sent as JSON, null as 204.
Sent(response) ==
  IF response # Null THEN [status |-> 200, body |-> response]
  ELSE [status |-> 204]

\* Line 229: req.body?.id || null
CatchId(body) ==
  OrElse(IF IsNullish(body) THEN Undef ELSE Prop(body, "id"), Null)

\* Lines 225-232: the catch of the handler.
Caught(body, message) ==
  [status |-> 500, body |-> ErrorEnvelope(CatchId(body), SERVER_ERROR, message)]

\* Line 213: JSON.stringify(req.body).substring(0, 100) raises a TypeError
\* when JSON.stringify returns undefined.
LogThrows(body) == JSONstringify(body).t = "undefined"

\* Lines 214-232: what the transport sends for what the handler did, a value
\* it returned or an error it threw.
Replied(body, h) ==
  IF h.kind = "throw" THEN Caught(body, h.message) ELSE Sent(h.value)

\* Variant of PromiseAll: it waits for every task and turns a failure into
\* the text of its message, as Promise.allSettled with a lenient merge would.
PromiseAllSettled(ts, i) ==
  IF \A k \in 1..Len(ts) : ~Outstanding(ts[k])
  THEN [state |-> "fulfilled",
        results |-> [k \in 1..Len(ts) |->
                       IF ts[k].state = "fulfilled" THEN ts[k].result
                       ELSE [type |-> "text", text |-> Str(ts[k].result.message)]]]
  ELSE [state |-> "pending"]

\* Variant of PromiseAll: the results come in the order the tasks settled.
PromiseAllCompletionOrder(ts, i) ==
  IF ts[i].state = "rejected"
    THEN [state |-> "rejected", message |-> ts[i].result.message]
  ELSE IF \A k \in 1..Len(ts) : ts[k].state = "fulfilled"
    THEN [state |-> "fulfilled",
          results |-> [k \in 1..Len(ts) |->
                         ts[CHOOSE j \in 1..Len(ts) : ts[j].at = k].result]]
  ELSE [state |-> "pending"]

\* Variant of PromiseAll: a rejection is reported only once every task has
\* settled.
PromiseAllWaitsForAll(ts, i) ==
  IF \E k \in 1..Len(ts) : Outstanding(ts[k])
    THEN [state |-> "pending"]
  ELSE IF \E k \in 1..Len(ts) : ts[k].state = "rejected"
    THEN [state |-> "rejected",
          message |->
            ts[CHOOSE k \in 1..Len(ts) :
                 /\ ts[k].state = "rejected"
                 /\ \A j \in 1..Len(ts) :
                      ts[j].state = "rejected" => ts[k].at <= ts[j].at
              ].result.message]
  ELSE [state |-> "fulfilled", results |-> [k \in 1..Len(ts) |-> ts[k].result]]

\* Variant of PromiseAll: it is fulfilled as soon as one task is, the tasks
\* still outstanding giving an empty text.
PromiseAllFirstResult(ts, i) ==
  IF ts[i].state = "rejected"
    THEN [state |-> "rejected", message |-> ts[i].result.message]
  ELSE [state |-> "fulfilled",
        results |-> [k \in 1..Len(ts) |->
                       IF ts[k].state = "fulfilled" THEN ts[k].result
                       ELSE [type |-> "text", text |-> Str(<<>>)]]]

\* Promise.all(tasks) at the moment task i settles, none having been rejected
\* before: it rejects with the error of task i, is fulfilled with the
\* results in the order of tasks, or stays pending.
PromiseAll(ts, i) ==
  IF ts[i].state = "rejected"
    THEN [state |-> "rejected", message |-> ts[i].result.message]
  ELSE IF \A k \in 1..Len(ts) : ts[k].state = "fulfilled"
    THEN [state |-> "fulfilled", results |-> [k \in 1..Len(ts) |-> ts[k].result]]
  ELSE [state |-> "pending"]

(***************************************************************************)
(* Inputs                                                                  *)
(***************************************************************************)
MaxRequests == 2
Slots == 1..MaxRequests

Key(name, value) == <<<<name>>, value>>

Envelope(id, method, params) ==
  Obj(Defined(<<Key("jsonrpc", Str(<<"2.0">>)), Key("id", id),
                Key("method", method), Key("params", params)>>))
Params(name, arguments) ==
  Obj(Defined(<<Key("name", name), Key("arguments", arguments)>>))
Args(id_cliente, tipo) ==
  Obj(Defined(<<Key("id_cliente", id_cliente), Key("tipo", tipo)>>))

\* {"toString":1}: a value that no template literal can convert.
Unprintable == Obj(<<Key("toString", Num(1))>>)

Ids == {Undef, Null, Num(0), Num(1), Str(<<"abc">>)}

\* What req.body may be: undefined (no body was parsed), null, or an
\* envelope: of any method but tools/call, with and without params, or of
\* tools/call with params that lack a part or carry every kind of tipo.
RequestBodies ==
  {Undef, Null}
    \cup {Envelope(id, m, p) :
            id \in Ids,
            m \in {Undef, Num(5), Str(<<"initialize">>), Str(<<"tools/list">>),
                   Str(<<"ping">>), Str(<<"notifications/list">>),
                   Str(<<"resources/list">>), Unprintable,
                   Arr(<<Num(1), Arr(<<Unprintable>>)>>)},
            p \in {Undef, Params(TOOL_NAME, Args(Num(7), TICKER_INFO))}}
    \cup {Envelope(id, Str(<<"tools/call">>), p) :
            id \in Ids,
            p \in {Undef, Params(TOOL_NAME, Undef),
                   Params(Undef, Args(Num(7), TICKER_INFO)),
                   Params(Str(<<"otherTool">>), Args(Num(7), TICKER_INFO)),
                   Params(Str(<<"otherTool">>), Args(Unprintable, TICKER_INFO)),
                   Params(TOOL_NAME, Args(Undef, TICKER_INFO)),
                   Params(TOOL_NAME, Args(Unprintable, TICKER_INFO)),
                   Params(TOOL_NAME, Args(Unprintable, EVALUATE_PORTFOLIO))}
                    \cup {Params(TOOL_NAME, Args(Num(7), t)) :
                            t \in {Undef, Null, Num(5), EVALUATE_PORTFOLIO,
                                   TICKER_INFO, REPLACEMENT,
                                   Str(<<"o", "t", "h", "e", "r">>),
                                   Unprintable}}}

\* Bodies of the upstream that the claims name, one character per token.
\* {"resultado":{"full_analysis":"A","market_summary":"B"}}
FoundAB ==
  <<"{", "\"", "r", "e", "s", "u", "l", "t", "a", "d", "o", "\"", ":", "{",
    "\"", "f", "u", "l", "l", "_", "a", "n", "a", "l", "y", "s", "i", "s",
    "\"", ":", "\"", "A", "\"", ",", "\"", "m", "a", "r", "k", "e", "t",
    "_", "s", "u", "m", "m", "a", "r", "y", "\"", ":", "\"", "B", "\"",
    "}", "}">>
\* {"resultado":{"full_analysis":"C"}}
FoundC ==
  <<"{", "\"", "r", "e", "s", "u", "l", "t", "a", "d", "o", "\"", ":", "{",
    "\"", "f", "u", "l", "l", "_", "a", "n", "a", "l", "y", "s", "i", "s",
    "\"", ":", "\"", "C", "\"", "}", "}">>
\* <html>Error</html>
HtmlPage ==
  <<"<", "h", "t", "m", "l", ">", "E", "r", "r", "o", "r", "<", "/", "h",
    "t", "m", "l", ">">>

\* Bodies the upstream may send.
UpstreamBodies ==
  {FoundAB, FoundC, HtmlPage,
   \* {"resultado":{"full_analysis":"L1\nL2\u00e9 ","market_summary":[1.5,-2e3,9007199254740993]}}
   <<"{", "\"", "r", "e", "s", "u", "l", "t", "a", "d", "o", "\"", ":", "{",
     "\"", "f", "u", "l", "l", "_", "a", "n", "a", "l", "y", "s", "i", "s",
     "\"", ":", "\"", "L", "1", "\\", "n", "L", "2", "\\", "u", "0", "0", "e",
     "9", SP, "\"", ",", "\"", "m", "a", "r", "k", "e", "t", "_", "s", "u",
     "m", "m", "a", "r", "y", "\"", ":", "[", "1", ".", "5", ",", "-", "2",
     "e", "3", ",", "9", "0", "0", "7", "1", "9", "9", "2", "5", "4", "7",
     "4", "0", "9", "9", "3", "]", "}", "}">>,
   \* {"resultado":{"full_analysis":{"toString":1}}}
   <<"{", "\"", "r", "e", "s", "u", "l", "t", "a", "d", "o", "\"", ":", "{",
     "\"", "f", "u", "l", "l", "_", "a", "n", "a", "l", "y", "s", "i", "s",
     "\"", ":", "{", "\"", "t", "o", "S", "t", "r", "i", "n", "g", "\"", ":",
     "1", "}", "}", "}">>,
   \* {"resultado":{"full_analysis":"A","market_summary":{"toString":"x"}}}
   <<"{", "\"", "r", "e", "s", "u", "l", "t", "a", "d", "o", "\"", ":", "{",
     "\"", "f", "u", "l", "l", "_", "a", "n", "a", "l", "y", "s", "i", "s",
     "\"", ":", "\"", "A", "\"", ",", "\"", "m", "a", "r", "k", "e", "t", "_",
     "s", "u", "m", "m", "a", "r", "y", "\"", ":", "{", "\"", "t", "o", "S",
     "t", "r", "i", "n", "g", "\"", ":", "\"", "x", "\"", "}", "}", "}">>,
   \* {"mensaje":"Sin análisis"}
   <<"{", "\"", "m", "e", "n", "s", "a", "j", "e", "\"", ":", "\"", "S",
     "i", "n", SP, "a", "n", "á", "l", "i", "s", "i", "s", "\"", "}">>,
   \* {"mensaje":"123"}
   <<"{", "\"", "m", "e", "n", "s", "a", "j", "e", "\"", ":", "\"", "1",
     "2", "3", "\"", "}">>,
   \* {"mensaje":{"toString":1}}
   <<"{", "\"", "m", "e", "n", "s", "a", "j", "e", "\"", ":", "{", "\"", "t",
     "o", "S", "t", "r", "i", "n", "g", "\"", ":", "1", "}", "}">>,
   \* {}
   <<"{", "}">>,
   \* null
   <<"n", "u", "l", "l">>}

(***************************************************************************)
(* The state machine                                                       *)
(***************************************************************************)
Init ==
  /\ req = [s \in Slots |-> Undef]
  /\ pc = [s \in Slots |-> "idle"]
  /\ tasks = [s \in Slots |-> <<>>]
  /\ res = [s \in Slots |-> <<>>]

\* Lines 214-232, h being what handleJsonRpc did up to its first await.
Handled(s, body, h) ==
  IF h.kind = "await"
  THEN /\ tasks' = [tasks EXCEPT ![s] = h.tasks]
       /\ pc' = [pc EXCEPT ![s] = "awaiting"]
       /\ UNCHANGED res
  ELSE /\ res' = [res EXCEPT ![s] = Append(@, Replied(body, h))]
       /\ pc' = [pc EXCEPT ![s] = "done"]
       /\ UNCHANGED tasks

\* app.post("/") up to the first suspension of handleJsonRpc.
Post(s, body) ==
  /\ pc[s] = "idle"
  /\ req' = [req EXCEPT ![s] = body]
  /\ Handled(s, body,
             IF LogThrows(body)
             THEN Raises(TypeErrorMsg(ToStr(Undef).value, "substring"))
             ELSE handleJsonRpc(body))

\* How many of the tasks have settled.
NumSettled(ts) == Cardinality({k \in 1..Len(ts) : ~Outstanding(ts[k])})

\* Task t settled, as the at-th of its request, with what getAnalysis gave
\* for the reply.
Settled(t, at, reply, r) ==
  [t EXCEPT !.state = IF r.ok THEN "fulfilled" ELSE "rejected",
            !.at = at,
            !.reply = reply,
            !.result = IF r.ok THEN r.value ELSE [message |-> r.message]]

\* Variant of Resume: the request being answered is kept in one variable
\* shared by all requests, which holds the request posted last (here the
\* one in the highest slot).
ResumeSharedRequest(s, all) ==
  IF pc[s] = "awaiting" /\ all.state = "rejected"
  THEN /\ res' = [res EXCEPT ![s] =
                    Append(@, Caught(req[CHOOSE l \in Slots :
                                           /\ pc[l] # "idle"
                                           /\ \A m \in Slots :
                                                pc[m] # "idle" => m <= l],
                                     all.message))]
       /\ pc' = [pc EXCEPT ![s] = "done"]
  ELSE IF pc[s] = "awaiting" /\ all.state = "fulfilled"
  THEN /\ res' = [res EXCEPT ![s] =
                    Append(@, Replied(req[s],
                                ToolCallResult(
                                  Field(req[CHOOSE l \in Slots :
                                              /\ pc[l] # "idle"
                                              /\ \A m \in Slots :
                                                   pc[m] # "idle" => m <= l],
                                        "id"),
                                  combinedText(all.results, Tipo(req[s])))))]
       /\ pc' = [pc EXCEPT ![s] = "done"]
  ELSE UNCHANGED <<res, pc>>

\* Variant of Resume: the rejection of Promise.all is not caught, and the
\* request stays without a response.
ResumeWithoutCatch(s, all) ==
  IF pc[s] = "awaiting" /\ all.state = "fulfilled"
  THEN /\ res' = [res EXCEPT ![s] =
                    Append(@, Replied(req[s],
                                ToolCallResult(Field(req[s], "id"),
                                  combinedText(all.results, Tipo(req[s])))))]
       /\ pc' = [pc EXCEPT ![s] = "done"]
  ELSE UNCHANGED <<res, pc>>

\* The handler of slot s resumes, if it still awaits and Promise.all is
\* settled: the error goes to the catch of line 225; the results are merged,
\* and the envelope is sent or the error of the merge goes to the same catch.
Resume(s, all) ==
  IF pc[s] = "awaiting" /\ all.state = "rejected"
  THEN /\ res' = [res EXCEPT ![s] = Append(@, Caught(req[s], all.message))]
       /\ pc' = [pc EXCEPT ![s] = "done"]
  ELSE IF pc[s] = "awaiting" /\ all.state = "fulfilled"
  THEN /\ res' = [res EXCEPT ![s] =
                    Append(@, Replied(req[s],
                                ToolCallResult(Field(req[s], "id"),
                                  combinedText(all.results, Tipo(req[s])))))]
       /\ pc' = [pc EXCEPT ![s] = "done"]
  ELSE UNCHANGED <<res, pc>>

SettleWith(s, i, ts) ==
  /\ tasks' = [tasks EXCEPT ![s] = ts]
  /\ Resume(s, PromiseAll(ts, i))
  /\ UNCHANGED req

\* Fetch i of slot s has its whole reply: getAnalysis finishes, and if that
\* settles Promise.all the handler resumes and answers.
Settle(s, i, reply) ==
  SettleWith(s, i, [tasks[s] EXCEPT
                      ![i] = Settled(@, NumSettled(tasks[s]) + 1, reply,
                                     getAnalysis(reply))])

\* Line 26: fetch resolves with the response, of which the status is known
\* and the body is not; getAnalysis goes on to line 37, 45 or 52 and awaits
\* the body there.
UpstreamStatus(s, i, status) ==
  /\ i \in 1..Len(tasks[s])
  /\ tasks[s][i].state = "pending"
  /\ tasks' = [tasks EXCEPT ![s][i].state = "reading",
                            ![s][i].reply = [kind |-> "headers", status |-> status]]
  /\ UNCHANGED <<req, pc, res>>

\* Lines 37, 45, 52: r.json() or r.text() settles, the body having arrived
\* whole or the stream having failed; the rest of getAnalysis runs without
\* another callback in between (r.text() of line 58 fails at once, the body
\* being used).
UpstreamBody(s, i, readable, body) ==
  /\ i \in 1..Len(tasks[s])
  /\ tasks[s][i].state = "reading"
  /\ Settle(s, i, Response(tasks[s][i].reply.status, readable, body))

\* Line 26: fetch rejects.
UpstreamFailure(s, i) ==
  /\ i \in 1..Len(tasks[s])
  /\ tasks[s][i].state = "pending"
  /\ Settle(s, i, [kind |-> "failure"])

\* One request at a time, with every input.
Next ==
  \/ \E body \in RequestBodies : Post(1, body)
  \/ \E i \in 1..2, status \in {200, 299, 300, 404, 500} :
       UpstreamStatus(1, i, status)
  \/ \E i \in 1..2, body \in UpstreamBodies : UpstreamBody(1, i, TRUE, body)
  \/ \E i \in 1..2 : UpstreamBody(1, i, FALSE, <<>>)
  \/ \E i \in 1..2 : UpstreamFailure(1, i)

Spec == Init /\ [][Next]_vars

\* Several requests in flight at once: each POST is handled in its own slot,
\* and the completions of their fetches interleave in any order.
InitializeParams ==
  Obj(<<Key("protocolVersion", Str(<<"2025-03-26">>))>>)

ConcurrentBodies ==
  {Envelope(Num(1), Str(<<"tools/call">>),
            Params(TOOL_NAME, Args(Num(7), TICKER_INFO))),
   Envelope(Str(<<"abc">>), Str(<<"tools/call">>),
            Params(TOOL_NAME, Args(Num(8), EVALUATE_PORTFOLIO))),
   Envelope(Num(1), Str(<<"initialize">>), Undef),
   Envelope(Num(0), Str(<<"initialize">>), InitializeParams)}

NextConcurrent ==
  \/ \E s \in Slots, body \in ConcurrentBodies : Post(s, body)
  \/ \E s \in Slots, i \in 1..2 : UpstreamStatus(s, i, 200)
  \/ \E s \in Slots, i \in 1..2 : UpstreamBody(s, i, TRUE, FoundAB)
  \/ \E s \in Slots, i \in 1..2 : UpstreamFailure(s, i)

SpecConcurrent == Init /\ [][NextConcurrent]_vars

(***************************************************************************)
(* What the claims speak of                                                *)
(***************************************************************************)
Posted(s) == pc[s] # "idle"

\* The value a JSON object gives for a name, undefined when it has none.
Given(v, name) == IF v.t = "object" THEN LastOf(v.ps, <<name>>) ELSE Undef

CarriesId(body) ==
  body.t = "object"
    /\ \E k \in 1..Len(body.ps) : Flatten(body.ps[k][1]) = "id"

GivenMethod(s) == Given(req[s], "method")
GivenName(s) == Given(Given(req[s], "params"), "name")
GivenArguments(s) == Given(Given(req[s], "params"), "arguments")
GivenTipo(s) == Given(GivenArguments(s), "tipo")
GivenClient(s) == Given(GivenArguments(s), "id_cliente")

\* A request (it carries an id) for tools/call.
ToolCallRequest(s) ==
  Posted(s) /\ CarriesId(req[s]) /\ GivenMethod(s) = Str(<<"tools/call">>)

\* A tools/call request that names getLatestClientAnalysis.
AnalysisRequest(s) == ToolCallRequest(s) /\ GivenName(s) = TOOL_NAME

IsError(r, code) ==
  /\ "body" \in DOMAIN r
  /\ "error" \in DOMAIN r.body
  /\ "result" \notin DOMAIN r.body
  /\ r.body.error.code = code

IsResult(r) ==
  /\ "body" \in DOMAIN r
  /\ "result" \in DOMAIN r.body
  /\ "error" \notin DOMAIN r.body

\* The one response of the request is the error with this code and its id.
AnsweredWithError(s, code) ==
  /\ pc[s] = "done"
  /\ Len(res[s]) = 1
  /\ IsError(res[s][1], code)

AnsweredWithResult(s) ==
  /\ pc[s] = "done"
  /\ Len(res[s]) = 1
  /\ IsResult(res[s][1])

MergedText(s) == res[s][1].body.result.content[1].text

SettledWith(t, status) ==
  /\ ~Outstanding(t)
  /\ t.reply.kind = "response"
  /\ t.reply.status = status

Contains(text, part) ==
  \E k \in 0..(Len(text) - Len(part)) : SubSeq(text, k + 1, k + Len(part)) = part

StartsWith(text, part) ==
  Len(part) <= Len(text) /\ SubSeq(text, 1, Len(part)) = part

IndexOf(text, tok) ==
  IF \E k \in 1..Len(text) : text[k] = tok
  THEN CHOOSE k \in 1..Len(text) :
         text[k] = tok /\ \A j \in 1..(k - 1) : text[j] # tok
  ELSE 0

(***************************************************************************)
(* C1                                                                      *)
(***************************************************************************)
\* C1: every POST body that carries an id gets exactly one response
\* envelope, never more, and the envelope's id equals the request's id, also
\* when a fetch raises and the transport answers with the -32000 error.
C1_OneResponseWithRequestId ==
  \A s \in Slots :
    Posted(s) /\ CarriesId(req[s]) =>
      /\ Len(res[s]) <= 1
      /\ pc[s] = "done" => Len(res[s]) = 1
      /\ \A k \in 1..Len(res[s]) :
           /\ "body" \in DOMAIN res[s][k]
           /\ res[s][k].body.id = Given(req[s], "id")

(***************************************************************************)
(* C2                                                                      *)
(***************************************************************************)
\* C2: a POST whose body lacks an id (an undefined or non-object body
\* included) issues no fetch and is answered 204 with no JSON-RPC body.
C2_NotificationNoBody ==
  \A s \in Slots :
    Posted(s) /\ ~CarriesId(req[s]) =>
      /\ pc[s] = "done"
      /\ tasks[s] = <<>>
      /\ Len(res[s]) = 1
      /\ res[s][1].status = 204
      /\ "body" \notin DOMAIN res[s][1]

(***************************************************************************)
(* C3                                                                      *)
(***************************************************************************)
\* C3: a tools/call request for getLatestClientAnalysis issues exactly one
\* fetch (evaluate_portfolio) when tipo is evaluate_portfolio, exactly two
\* (evaluate_portfolio and the requested type, same id_cliente) when tipo is
\* ticker_info or replacement; no request issues more than two fetches.
C3_FetchesPerRequest ==
  \A s \in Slots :
    /\ Len(tasks[s]) <= 2
    /\ AnalysisRequest(s) /\ GivenTipo(s) = EVALUATE_PORTFOLIO =>
         /\ Len(tasks[s]) = 1
         /\ tasks[s][1].analysisType = EVALUATE_PORTFOLIO
         /\ tasks[s][1].clientId = GivenClient(s)
    /\ AnalysisRequest(s) /\ GivenTipo(s) \in {TICKER_INFO, REPLACEMENT} =>
         /\ Len(tasks[s]) = 2
         /\ \E i, j \in 1..2 :
              /\ i # j
              /\ tasks[s][i].analysisType = EVALUATE_PORTFOLIO
              /\ tasks[s][j].analysisType = GivenTipo(s)
         /\ \A i \in 1..2 : tasks[s][i].clientId = GivenClient(s)

(***************************************************************************)
(* C4                                                                      *)
(***************************************************************************)
\* C4: a tools/call gets a success result only if every fetch scheduled for
\* it completed without raising; once a scheduled fetch has raised, its
\* response is the -32000 error, with no result.
C4_NoPartialMerge ==
  \A s \in Slots :
    /\ (\E k \in 1..Len(res[s]) : IsResult(res[s][k])) /\ tasks[s] # <<>> =>
         \A i \in 1..Len(tasks[s]) : tasks[s][i].state = "fulfilled"
    /\ (\E i \in 1..Len(tasks[s]) : tasks[s][i].state = "rejected") =>
         AnsweredWithError(s, SERVER_ERROR)

\* Of two fetches one completed and the other raised: the answer is the error.
C4_Witness ==
  \E s \in Slots :
    /\ Len(tasks[s]) = 2
    /\ tasks[s][1].state = "fulfilled"
    /\ tasks[s][2].state = "rejected"
    /\ AnsweredWithError(s, SERVER_ERROR)

(***************************************************************************)
(* C5                                                                      *)
(***************************************************************************)
\* C5: when the upstream answers the portfolio fetch with status 404, the
\* fetch does not raise but returns a text outcome, and the tool call, once
\* all its fetches are done, succeeds with the fallback message verbatim
\* under the portfolio header.
C5_NotFoundIsNoError ==
  \A s \in Slots :
    tasks[s] # <<>> /\ SettledWith(tasks[s][1], 404) =>
      /\ tasks[s][1].state = "fulfilled"
      /\ tasks[s][1].result.text.t = "string"
      /\ (\A i \in 1..Len(tasks[s]) : tasks[s][i].state = "fulfilled") =>
           /\ AnsweredWithResult(s)
           /\ StartsWith(MergedText(s),
                         PortfolioHeader \o tasks[s][1].result.text.s)

(***************************************************************************)
(* C6                                                                      *)
(***************************************************************************)
\* C6: a 2xx reply whose body is not valid JSON makes getAnalysis raise an
\* error that says the response is not valid JSON, never a text outcome, and
\* the tools/call is answered with the -32000 error.
C6_InvalidJsonRaises ==
  \A s \in Slots : \A i \in 1..Len(tasks[s]) :
    (/\ ~Outstanding(tasks[s][i])
     /\ tasks[s][i].reply.kind = "response"
     /\ tasks[s][i].reply.status \in 200..299
     /\ tasks[s][i].reply.readable
     /\ ~ParseText(tasks[s][i].reply.body).ok) =>
      /\ tasks[s][i].state = "rejected"
      /\ Contains(tasks[s][i].result.message, NotValidJsonMsg)
      /\ AnsweredWithError(s, SERVER_ERROR)

\* A fetch was answered 299 with an HTML page.
C6_Witness ==
  \E s \in Slots : \E i \in 1..Len(tasks[s]) :
    /\ SettledWith(tasks[s][i], 299)
    /\ tasks[s][i].reply.readable
    /\ tasks[s][i].reply.body = HtmlPage
    /\ tasks[s][i].state = "rejected"

(***************************************************************************)
(* C7                                                                      *)
(***************************************************************************)
\* C7: a reply with an error status other than 404 makes getAnalysis raise
\* an error whose message embeds the status code and the body text, never a
\* text outcome, and the tools/call is answered with the -32000 error.
C7_ErrorStatusRaises ==
  \A s \in Slots : \A i \in 1..Len(tasks[s]) :
    (/\ ~Outstanding(tasks[s][i])
     /\ tasks[s][i].reply.kind = "response"
     /\ tasks[s][i].reply.status \notin 200..299
     /\ tasks[s][i].reply.status # 404) =>
      /\ tasks[s][i].state = "rejected"
      /\ Contains(tasks[s][i].result.message,
                  NumToText(tasks[s][i].reply.status) \o <<":", SP>>
                    \o (IF tasks[s][i].reply.readable
                        THEN tasks[s][i].reply.body ELSE <<>>))
      /\ AnsweredWithError(s, SERVER_ERROR)

\* A fetch was answered 300 with a body.
C7_Witness ==
  \E s \in Slots : \E i \in 1..Len(tasks[s]) :
    /\ SettledWith(tasks[s][i], 300)
    /\ tasks[s][i].reply.readable
    /\ tasks[s][i].reply.body = HtmlPage
    /\ tasks[s][i].state = "rejected"

(***************************************************************************)
(* C8                                                                      *)
(***************************************************************************)
SupportedMethods ==
  {Str(<<"initialize">>), Str(<<"tools/list">>), Str(<<"tools/call">>),
   Str(<<"ping">>), Str(<<"notifications/list">>)}

\* C8: an envelope with an id and a method outside the supported ones (an
\* undefined method included) is answered, without raising and without any
\* upstream call, by an error envelope with the same id and code -32601.
C8_UnknownMethod ==
  \A s \in Slots :
    Posted(s) /\ CarriesId(req[s]) /\ GivenMethod(s) \notin SupportedMethods =>
      /\ tasks[s] = <<>>
      /\ AnsweredWithError(s, METHOD_NOT_FOUND)
      /\ res[s][1].status = 200
      /\ res[s][1].body.id = Given(req[s], "id")

(***************************************************************************)
(* C9                                                                      *)
(***************************************************************************)
\* C9: a tools/call request whose params.name is not getLatestClientAnalysis
\* (params or name missing included) is answered by a -32601 error envelope
\* with its id, and no fetch is issued for it.
C9_UnknownTool ==
  \A s \in Slots :
    ToolCallRequest(s) /\ GivenName(s) # TOOL_NAME =>
      /\ tasks[s] = <<>>
      /\ AnsweredWithError(s, METHOD_NOT_FOUND)
      /\ res[s][1].body.id = Given(req[s], "id")

\* A tools/call that names another tool, with valid arguments, was answered.
C9_Witness ==
  \E s \in Slots :
    /\ ToolCallRequest(s)
    /\ GivenName(s) = Str(<<"otherTool">>)
    /\ GivenTipo(s) = TICKER_INFO
    /\ AnsweredWithError(s, METHOD_NOT_FOUND)

(***************************************************************************)
(* C10                                                                     *)
(***************************************************************************)
\* The portfolio result is JSON that has a market_summary (one that is not
\* empty, zero, false or null).
HasMarketSummary(t) ==
  /\ JSONparse(t.result.text).ok
  /\ ~IsNullish(JSONparse(t.result.text).v)
  /\ Truthy(Prop(JSONparse(t.result.text).v, "market_summary"))

\* The full_analysis and the market_summary of the portfolio result can both
\* be written into a text.
MarketSummaryPrintable(t) ==
  /\ HasMarketSummary(t)
  /\ ToStr(Prop(JSONparse(t.result.text).v, "full_analysis")).ok
  /\ ToStr(Prop(JSONparse(t.result.text).v, "market_summary")).ok

\* C10: the merged report lists the portfolio section first, then the market
\* context (only if the portfolio result has market_summary, and always when
\* it has one that can be written), then the section of the specific type
\* (only if a second fetch was scheduled), whichever fetch completed first;
\* for portfolio {A, B} and ticker_info {C} it is exactly the text of the
\* round-trip example.
C10_SectionOrder ==
  \A s \in Slots :
    tasks[s] # <<>> /\ AnsweredWithResult(s) =>
      LET text == MergedText(s)
          m == IndexOf(text, MarketHeader[1])
          x == IndexOf(text, "--- ANÁLISIS DE")
      IN /\ IndexOf(text, PortfolioHeader[1]) = 1
         /\ m # 0 => HasMarketSummary(tasks[s][1])
         /\ MarketSummaryPrintable(tasks[s][1]) => m # 0
         /\ m # 0 => 1 < m
         /\ (x # 0) = (Len(tasks[s]) = 2)
         /\ x # 0 => 1 < x /\ m < x
         /\ (/\ Len(tasks[s]) = 2
             /\ tasks[s][1].reply = Response(200, TRUE, FoundAB)
             /\ tasks[s][2].analysisType = TICKER_INFO
             /\ tasks[s][2].reply = Response(200, TRUE, FoundC)) =>
              Flatten(text) =
                "--- ANÁLISIS DE PORTAFOLIO ---\nA\n\n--- CONTEXTO DE MERCADO ---\nB\n\n--- ANÁLISIS DE TICKER INFO ---\nC"

\* The round-trip example, the ticker_info fetch having completed first.
C10_Witness ==
  \E s \in Slots :
    /\ Len(tasks[s]) = 2
    /\ AnsweredWithResult(s)
    /\ tasks[s][1].reply = Response(200, TRUE, FoundAB)
    /\ tasks[s][2].analysisType = TICKER_INFO
    /\ tasks[s][2].reply = Response(200, TRUE, FoundC)
    /\ tasks[s][2].at = 1
    /\ tasks[s][1].at = 2

(***************************************************************************)
(* C11                                                                     *)
(***************************************************************************)
\* The first of the request's fetches to raise.
FirstRejected(ts) ==
  CHOOSE k \in 1..Len(ts) :
    /\ ts[k].state = "rejected"
    /\ \A j \in 1..Len(ts) : ts[j].state = "rejected" => ts[k].at <= ts[j].at

\* C11: when a tools/call has two fetches scheduled and one of them has
\* raised, the request already has its -32000 error response, carrying the
\* message of the fetch that raised first, whether the other fetch has
\* completed or is still outstanding.
C11_FailFast ==
  \A s \in Slots :
    (Len(tasks[s]) = 2 /\ \E i \in 1..2 : tasks[s][i].state = "rejected") =>
      /\ AnsweredWithError(s, SERVER_ERROR)
      /\ res[s][1].status = 500
      /\ res[s][1].body.error.message =
           tasks[s][FirstRejected(tasks[s])].result.message

\* The specific fetch raised while the portfolio fetch, its status known, is
\* still reading its body, and the error response is out.
C11_Witness ==
  \E s \in Slots :
    /\ Len(tasks[s]) = 2
    /\ tasks[s][1].state = "reading"
    /\ tasks[s][2].state = "rejected"
    /\ AnsweredWithError(s, SERVER_ERROR)

(***************************************************************************)
(* C12                                                                     *)
(***************************************************************************)
\* C12 as stated: while an upstream call scheduled for a request is
\* outstanding (and it may stay so for ever: nothing times it out), the
\* request has no response.
C12_HangBlocksRequest ==
  \A s \in Slots :
    (\E i \in 1..Len(tasks[s]) : Outstanding(tasks[s][i])) =>
      res[s] = <<>>

\* C12 amended: while an upstream call scheduled for a request is outstanding
\* and no other fetch of the request has raised, the request is still
\* awaiting and has no response; nothing but the completion of a fetch ends
\* the wait.
C12_HangBlocksUnlessRaised ==
  \A s \in Slots :
    (/\ \E i \in 1..Len(tasks[s]) : Outstanding(tasks[s][i])
     /\ \A i \in 1..Len(tasks[s]) : tasks[s][i].state # "rejected") =>
      res[s] = <<>> /\ pc[s] = "awaiting"

\* Of two fetches one has completed and the other is outstanding: no
\* response yet.
C12_Witness ==
  \E s \in Slots :
    /\ Len(tasks[s]) = 2
    /\ tasks[s][1].state = "fulfilled"
    /\ tasks[s][2].state = "reading"
    /\ res[s] = <<>>

(***************************************************************************)
(* C13                                                                     *)
(***************************************************************************)
\* A JSON-RPC error object: a code and a message that is not empty, no result.
IsErrorObject(r) ==
  /\ "body" \in DOMAIN r
  /\ DOMAIN r.body = {"jsonrpc", "id", "error"}
  /\ r.body.jsonrpc = "2.0"
  /\ r.body.error.code \in {METHOD_NOT_FOUND, SERVER_ERROR}
  /\ r.body.error.message # <<>>

\* A result whose content is one text item that starts with the portfolio
\* header.
IsTextResult(r) ==
  /\ "body" \in DOMAIN r
  /\ DOMAIN r.body = {"jsonrpc", "id", "result"}
  /\ r.body.jsonrpc = "2.0"
  /\ DOMAIN r.body.result = {"content"}
  /\ Len(r.body.result.content) = 1
  /\ r.body.result.content[1].type = "text"
  /\ r.body.result.content[1].text # <<>>
  /\ Flatten(r.body.result.content[1].text) # ""
  /\ r.body.result.content[1].text[1] = "--- ANÁLISIS DE PORTAFOLIO ---"

\* C13: every response to a tools/call request is either a JSON-RPC error
\* object or a result whose content is exactly one item of type "text" with
\* a text that is not empty and begins with the portfolio header, whatever
\* the upstream answered.
C13_ErrorOrTextResult ==
  \A s \in Slots :
    ToolCallRequest(s) =>
      \A k \in 1..Len(res[s]) :
        IsErrorObject(res[s][k]) \/ IsTextResult(res[s][k])

\* A tool call whose portfolio fetch found nothing (404) got a text result.
C13_Witness ==
  \E s \in Slots :
    /\ AnalysisRequest(s)
    /\ Len(tasks[s]) = 1
    /\ SettledWith(tasks[s][1], 404)
    /\ Len(res[s]) = 1
    /\ IsTextResult(res[s][1])

(***************************************************************************)
(* C16                                                                     *)
(***************************************************************************)
\* An envelope without id that calls the tool with arguments.
ToolCallNotification(s) ==
  /\ Posted(s)
  /\ req[s].t = "object"
  /\ ~CarriesId(req[s])
  /\ GivenMethod(s) = Str(<<"tools/call">>)
  /\ GivenName(s) = TOOL_NAME
  /\ GivenArguments(s).t = "object"

\* C16: an envelope without id whose method is tools/call, with the tool's
\* name and arguments, schedules no upstream fetch and gets no response
\* body: the transport answers 204.
C16_NotificationBeforeMethod ==
  \A s \in Slots :
    ToolCallNotification(s) =>
      /\ tasks[s] = <<>>
      /\ pc[s] = "done"
      /\ res[s] = <<[status |-> 204]>>

\* A tools/call notification for ticker_info has been handled.
C16_Witness ==
  \E s \in Slots :
    /\ ToolCallNotification(s)
    /\ GivenTipo(s) = TICKER_INFO
    /\ GivenClient(s) = Num(7)
    /\ pc[s] = "done"

(***************************************************************************)
(* C17                                                                     *)
(***************************************************************************)
\* The error of a fetch is reported as a failure to connect to the upstream.
ReportedAsConnectionFailure(t) ==
  /\ t.state = "rejected"
  /\ StartsWith(t.result.message, <<"Error conectando con HostGator:">>)

\* C17: of the errors a fetch raises, only the failure of the network is
\* reported as a connection failure; the error for a 2xx body that is not
\* JSON, and the error for a hard status, are not.
C17_DistinctErrorKinds ==
  \A s \in Slots : \A i \in 1..Len(tasks[s]) :
    tasks[s][i].state = "rejected" =>
      /\ tasks[s][i].reply.kind = "failure" =>
           ReportedAsConnectionFailure(tasks[s][i])
      /\ (tasks[s][i].reply.kind = "response" /\ tasks[s][i].reply.readable) =>
           ~ReportedAsConnectionFailure(tasks[s][i])

(***************************************************************************)
(* C18                                                                     *)
(***************************************************************************)
\* The header of the specific section, for the two specific types.
SpecificTitle(tipo) ==
  IF tipo = TICKER_INFO THEN "--- ANÁLISIS DE TICKER INFO ---\n"
  ELSE "--- ANÁLISIS DE REPLACEMENT ---\n"

\* The text from token k on.
From(text, k) == SubSeq(text, k, Len(text))

\* C18: when the portfolio fetch succeeded (2xx) and the specific fetch
\* returned the 404 outcome, the tool call succeeds, and its text is the
\* portfolio section followed by the specific section: the header derived
\* from tipo, then the fallback message of the outcome.
C18_SpecificNotFoundSection ==
  \A s \in Slots :
    (/\ AnalysisRequest(s)
     /\ Len(tasks[s]) = 2
     /\ tasks[s][1].state = "fulfilled"
     /\ \E status \in 200..299 : SettledWith(tasks[s][1], status)
     /\ tasks[s][2].state = "fulfilled"
     /\ SettledWith(tasks[s][2], 404)) =>
      /\ AnsweredWithResult(s)
      /\ LET text == MergedText(s)
             x == IndexOf(text, "--- ANÁLISIS DE")
         IN /\ text[1] = "--- ANÁLISIS DE PORTAFOLIO ---"
            /\ x > 1
            /\ Flatten(From(text, x)) =
                 SpecificTitle(GivenTipo(s))
                   \o Flatten(ToStr(tasks[s][2].result.text).value)

(***************************************************************************)
(* C20                                                                     *)
(***************************************************************************)
\* A call of the tool whose tipo is none of the three types: missing, of
\* another type or another word, or the arguments are missing altogether.
UnlistedTipoRequest(s) ==
  /\ AnalysisRequest(s)
  /\ GivenTipo(s) \notin {EVALUATE_PORTFOLIO, TICKER_INFO, REPLACEMENT}

\* C20: a call of the tool with an unlisted tipo schedules exactly one
\* fetch, of type evaluate_portfolio for the given client; when that fetch
\* has not raised the answer is the success result a call with tipo
\* evaluate_portfolio gets, with the portfolio section (and the market
\* context if present) and no specific section; the only error it can get
\* is the -32000 of a fetch that raised.
C20_ArgumentsNotValidated ==
  \A s \in Slots :
    UnlistedTipoRequest(s) =>
      /\ Len(tasks[s]) = 1
      /\ tasks[s][1].analysisType = EVALUATE_PORTFOLIO
      /\ tasks[s][1].clientId = GivenClient(s)
      /\ \A k \in 1..Len(res[s]) :
           IsResult(res[s][k]) \/
             (IsError(res[s][k], SERVER_ERROR) /\ tasks[s][1].state = "rejected")
      /\ tasks[s][1].state = "fulfilled" =>
           /\ AnsweredWithResult(s)
           /\ res[s][1].body =
                ToolCallResult(Given(req[s], "id"),
                               combinedText(<<tasks[s][1].result>>,
                                            EVALUATE_PORTFOLIO)).value
           /\ MergedText(s)[1] = "--- ANÁLISIS DE PORTAFOLIO ---"
           /\ IndexOf(MergedText(s), "--- ANÁLISIS DE") = 0
           /\ (IndexOf(MergedText(s), MarketHeader[1]) # 0) =
                HasMarketSummary(tasks[s][1])

(***************************************************************************)
(* C19                                                                     *)
(***************************************************************************)
\* A request: a posted body that carries an id.
RequestWithId(s) == Posted(s) /\ CarriesId(req[s])

\* Fetch i of the request has completed (it returned or raised), or the
\* request has no such fetch.
FetchCompleted(s, i) == i > Len(tasks[s]) \/ ~Outstanding(tasks[s][i])

\* The request has its response, a result or an error.
Answered(s) ==
  /\ Len(res[s]) = 1
  /\ IsResult(res[s][1]) \/ IsError(res[s][1], METHOD_NOT_FOUND)
       \/ IsError(res[s][1], SERVER_ERROR)

\* C19: for every request with an id, if every fetch scheduled for it
\* eventually completes then the request eventually has its response; and
\* once its fetches have completed it is not left unanswered.
C19_EventualResponse ==
  \A s \in Slots :
    /\ [](RequestWithId(s) =>
            ((\A i \in 1..2 : <>FetchCompleted(s, i)) => <>Answered(s)))
    /\ []((RequestWithId(s) /\ \A i \in 1..2 : FetchCompleted(s, i)) =>
            Answered(s))

\* A request with two fetches, both completed, has its response.
C19_Witness ==
  \E s \in Slots :
    /\ RequestWithId(s)
    /\ Len(tasks[s]) = 2
    /\ \A i \in 1..2 : ~Outstanding(tasks[s][i])
    /\ Answered(s)

(***************************************************************************)
(* C14                                                                     *)
(***************************************************************************)
\* The response a request gets when it runs alone, given its body and its
\* own fetches ts (their replies and the order in which they completed):
\* none while it waits, the error of the fetch that raised first, or the
\* merge of the outcomes of its fetches.
AloneAnswered(body, h, ts) ==
  IF h.kind # "await" THEN <<Replied(body, h)>>
  ELSE IF \E k \in 1..Len(ts) : ts[k].state = "rejected"
    THEN <<Caught(body, getAnalysis(ts[FirstRejected(ts)].reply).message)>>
  ELSE IF \A k \in 1..Len(ts) : ts[k].state = "fulfilled"
    THEN <<Replied(body,
             ToolCallResult(Given(body, "id"),
               combinedText([k \in 1..Len(ts) |-> getAnalysis(ts[k].reply).value],
                            Given(Given(Given(body, "params"), "arguments"),
                                  "tipo"))))>>
  ELSE <<>>

\* The fetches of a request as they were scheduled.
AsScheduled(ts) ==
  [k \in 1..Len(ts) |-> Task(ts[k].clientId, ts[k].analysisType)]

\* C14: with several requests in flight and their fetches completing in any
\* order, the fetches of each request are those its own envelope asks for,
\* and its response is the one it gets when it runs alone with the same
\* outcomes of its own fetches.
C14_RequestsIndependent ==
  \A s \in Slots :
    Posted(s) =>
      /\ AsScheduled(tasks[s]) =
           (IF handleJsonRpc(req[s]).kind = "await"
            THEN handleJsonRpc(req[s]).tasks ELSE <<>>)
      /\ res[s] = AloneAnswered(req[s], handleJsonRpc(req[s]), tasks[s])

\* Two tool calls were in flight together, the completions of their fetches
\* interleaved, and both are answered.
C14_Witness ==
  \E s, u \in Slots :
    /\ s # u
    /\ Len(tasks[s]) = 2
    /\ Len(tasks[u]) = 1
    /\ AnsweredWithResult(s)
    /\ AnsweredWithError(u, SERVER_ERROR)
    /\ res[s][1].body.id = Num(1)
    /\ res[u][1].body.id = Str(<<"abc">>)

(***************************************************************************)
(* C15                                                                     *)
(***************************************************************************)
InitializeRequest(s) ==
  RequestWithId(s) /\ GivenMethod(s) = Str(<<"initialize">>)

\* The slot is as it was.
Untouched(t) ==
  /\ req'[t] = req[t]
  /\ pc'[t] = pc[t]
  /\ tasks'[t] = tasks[t]
  /\ res'[t] = res[t]

\* C15: every initialize request, whatever its params and whatever other
\* requests are in flight, schedules no fetch and is answered with its own
\* id and the fixed descriptor, the same for all of them; and handling it
\* leaves every other request as it was.
C15_InitializePure ==
  /\ [](\A s \in Slots :
          InitializeRequest(s) =>
            /\ tasks[s] = <<>>
            /\ res[s] =
                 <<[status |-> 200,
                    body |->
                      [jsonrpc |-> "2.0",
                       id |-> Given(req[s], "id"),
                       result |->
                         [protocolVersion |-> "2024-11-05",
                          serverInfo |-> [name |-> "mcp-analysis-retriever",
                                          version |-> "1.0.0"],
                          capabilities |-> [tools |-> Obj(<<>>)]]]]>>
            /\ \A u \in Slots :
                 InitializeRequest(u) =>
                   res[u][1].body.result = res[s][1].body.result)
  /\ [][\A s \in Slots :
          (~Posted(s) /\ InitializeRequest(s)') =>
            \A u \in Slots \ {s} : Untouched(u)]_vars

\* An initialize request that carries params is answered while a tool call
\* posted before it is waiting: one of its fetches has completed, the other
\* is reading its body.
C15_Witness ==
  \E s, w \in Slots :
    /\ InitializeRequest(s)
    /\ Given(req[s], "params") = InitializeParams
    /\ Len(res[s]) = 1
    /\ pc[w] = "awaiting"
    /\ Len(tasks[w]) = 2
    /\ tasks[w][1].state = "fulfilled"
    /\ tasks[w][2].state = "reading"
====
